---- MODULE Spec2Model ----
(***************************************************************************)
(* Model of tp1/sorting.py (the sort benchmark) and tp1/datastructures.py  *)
(* (the container benchmark), and of the loader both programs start with.  *)
(*                                                                         *)
(* A string is a sequence of code points; strings compare as Python's str  *)
(* does, lexicographically by code point.  A Python list is an object of   *)
(* the heap, named by a reference; its elements are the string objects of  *)
(* the listing, each a record [s |-> string, id |-> identity], so that two *)
(* equal strings of the listing stay distinguishable.                      *)
(***************************************************************************)
EXTENDS Integers, Sequences, FiniteSets

VARIABLES
    \* ---- loader (sorting.py 50-51, datastructures.py 16-17)
    file,           \* the content of listing.txt, a sequence of code points
    raw,            \* f.readlines()
    loaded,         \* the list the comprehension builds
    lpc,
    \* ---- sort benchmark (sorting.py)
    listing,        \* the value of the Listing as loaded
    heap,           \* the list objects: reference -> sequence of elements
    lines,          \* main's `lines`, a reference
    arr,            \* the running sort function's `arr`, a reference (0: none)
    sorted_data,    \* measure_sort_time's `sorted_data`, a reference (0: none)
    func,           \* index of the loop of main, 1..3 (bubble, selection, insertion)
    timer,          \* "idle", "running" (start_time read), "stopped" (end_time read)
    events,         \* what happened during the current measure_sort_time call
    printed,        \* the lines main printed
    pc,
    \* ---- container benchmark (datastructures.py)
    dlines,         \* main's `lines`
    hashtable,      \* dict: [keys |-> keys in iteration order, val |-> key -> tag]
    stack,
    queue,
    positions,
    queue_list,
    hashtable_keys,
    new_lines,
    out,            \* the probe reports printed
    dpc

loadVars == <<file, raw, loaded, lpc>>
sortVars == <<listing, heap, lines, arr, sorted_data, func, timer, events, printed, pc>>
dsVars   == <<dlines, hashtable, stack, queue, positions, queue_list, hashtable_keys,
              new_lines, out, dpc>>
vars     == <<loadVars, sortVars, dsVars>>

\* ------------------------------------------------------------------ bounds
MaxLen     == 3     \* longest Listing of the sort benchmark
MaxStrLen  == 2     \* longest record of the sort benchmark
MaxFileLen == 7     \* longest file of the loader, in characters
MaxN       == 11    \* longest Listing of the container benchmark

\* ----------------------------------------------------------------- strings
SortChars  == {97, 98}                  \* "a", "b"
Whitespace == {9, 10, 32}               \* what str.strip() removes (tab, newline, space)
FileChars  == {10, 32, 97}              \* newline, space, "a"
LineEnds   == {10}                      \* what ends a line of a text file

RECURSIVE SeqsUpTo(_, _)
SeqsUpTo(S, n) ==
    IF n = 0 THEN {<<>>}
    ELSE LET shorter == SeqsUpTo(S, n - 1)
         IN  shorter \cup {Append(q, x) : q \in {r \in shorter : Len(r) = n - 1}, x \in S}

\* Python's s < t on str: lexicographic by code point, a proper prefix is smaller.
RECURSIVE StrLess(_, _)
StrLess(s, t) ==
    IF t = <<>> THEN FALSE
    ELSE IF s = <<>> THEN TRUE
    ELSE IF Head(s) # Head(t) THEN Head(s) < Head(t)
    ELSE StrLess(Tail(s), Tail(t))

\* The comparisons of list elements look at the string, never at the identity.
Less(x, y)    == StrLess(x.s, y.s)
Greater(x, y) == StrLess(y.s, x.s)
GreaterEq(x, y) == ~StrLess(x.s, y.s)
LessEq(x, y)    == ~StrLess(y.s, x.s)

\* 0-based access to a list, as the code indexes it.
At(a, i)     == a[i + 1]
Put(a, i, x) == [a EXCEPT ![i + 1] = x]

\* arr[i], arr[j] = arr[j], arr[i]
SwapLosing(a, i, j) == [a EXCEPT ![i + 1] = a[j + 1]]
Swap(a, i, j) == [a EXCEPT ![i + 1] = a[j + 1], ![j + 1] = a[i + 1]]

\* ----------------------------------------------------------- bubble_sort
BubbleCondEq(a, j) == GreaterEq(At(a, j), At(a, j + 1))
BubbleCond(a, j) == Greater(At(a, j), At(a, j + 1))

RECURSIVE BubbleInner(_, _, _)
BubbleInner(a, j, hi) ==
    IF j >= hi THEN a
    ELSE BubbleInner(IF BubbleCond(a, j) THEN Swap(a, j, j + 1) ELSE a, j + 1, hi)

RECURSIVE BubbleOuter(_, _, _)
BubbleOuter(a, i, n) ==
    IF i >= n THEN a
    ELSE BubbleOuter(BubbleInner(a, 0, n - i - 1), i + 1, n)

BubbleLoops(a) == BubbleOuter(a, 0, Len(a))

\* -------------------------------------------------------- selection_sort
RECURSIVE MinIdx(_, _, _, _)
MinIdx(a, j, n, min_idx) ==
    IF j >= n THEN min_idx
    ELSE MinIdx(a, j + 1, n, IF Less(At(a, j), At(a, min_idx)) THEN j ELSE min_idx)

RECURSIVE SelectionOuter(_, _, _)
SelectionOuter(a, i, n) ==
    IF i >= n THEN a
    ELSE SelectionOuter(Swap(a, i, MinIdx(a, i + 1, n, i)), i + 1, n)

SelectionLoops(a) == SelectionOuter(a, 0, Len(a))

\* -------------------------------------------------------- insertion_sort
ShiftCondEq(a, j, key) == j >= 0 /\ GreaterEq(At(a, j), key)
ShiftCond(a, j, key) == j >= 0 /\ Greater(At(a, j), key)

RECURSIVE InsertionWhile(_, _, _)
InsertionWhile(a, j, key) ==
    IF ShiftCond(a, j, key)
    THEN InsertionWhile(Put(a, j + 1, At(a, j)), j - 1, key)
    ELSE Put(a, j + 1, key)

RECURSIVE InsertionOuter(_, _, _)
InsertionOuter(a, i, n) ==
    IF i >= n THEN a
    ELSE InsertionOuter(InsertionWhile(a, i - 1, At(a, i)), i + 1, n)

InsertionLoops(a) == InsertionOuter(a, 1, Len(a))

\* The list of main's loop: (name, function), in order.
SortNames == <<"Bubble Sort", "Selection Sort", "Insertion Sort">>

Loops(f, a) ==
    CASE f = 1 -> BubbleLoops(a)
      [] f = 2 -> SelectionLoops(a)
      [] f = 3 -> InsertionLoops(a)

\* data[:] : a new list object holding the same elements.
SliceAlias(h, r) == [heap |-> h, ref |-> r]
SliceCopy(h, r) == [heap |-> Append(h, h[r]), ref |-> Len(h) + 1]

\* The three functions as values: what each returns for the list `data`.
bubble_sort(data)    == BubbleLoops(data)
selection_sort(data) == SelectionLoops(data)
insertion_sort(data) == InsertionLoops(data)

\* -------------------------------------------------- sort benchmark: state
SortStrings == SeqsUpTo(SortChars, MaxStrLen) \ {<<>>}
Tagged(q)   == [i \in 1..Len(q) |-> [s |-> q[i], id |-> i]]
Listings    == {Tagged(q) : q \in SeqsUpTo(SortStrings, MaxLen)}

LoadIdle == file = <<>> /\ raw = <<>> /\ loaded = <<>> /\ lpc = "off"
SortIdle ==
    /\ listing = <<>> /\ heap = <<>> /\ lines = 0 /\ arr = 0 /\ sorted_data = 0
    /\ func = 0 /\ timer = "idle" /\ events = <<>> /\ printed = <<>> /\ pc = "off"
DSIdle ==
    /\ dlines = <<>> /\ hashtable = [keys |-> <<>>, val |-> <<>>]
    /\ stack = <<>> /\ queue = <<>> /\ positions = <<>> /\ queue_list = <<>>
    /\ hashtable_keys = <<>> /\ new_lines = <<>> /\ out = <<>> /\ dpc = "off"

\* main after the listing is loaded: `lines` names a list holding it.
InitSort ==
    /\ listing \in Listings
    /\ heap = <<listing>>
    /\ lines = 1
    /\ arr = 0
    /\ sorted_data = 0
    /\ func = 1
    /\ timer = "idle"
    /\ events = <<>>
    /\ printed = <<>>
    /\ pc = "measure"
    /\ LoadIdle
    /\ DSIdle

\* measure_sort_time: start_time = time.perf_counter()
StartTimerMissing ==
    /\ pc = "measure"
    /\ timer' = "idle"
    /\ events' = <<>>
    /\ pc' = "call"
    /\ UNCHANGED <<listing, heap, lines, arr, sorted_data, func, printed>>
    /\ UNCHANGED <<loadVars, dsVars>>

StartTimer ==
    /\ pc = "measure"
    /\ timer' = "running"
    /\ events' = <<"timer-start">>
    /\ pc' = "call"
    /\ UNCHANGED <<listing, heap, lines, arr, sorted_data, func, printed>>
    /\ UNCHANGED <<loadVars, dsVars>>

\* sort_func(data), first statement: arr = data[:]
EnterSort ==
    /\ pc = "call"
    /\ LET c == SliceCopy(heap, lines)
       IN  /\ heap' = c.heap
           /\ arr' = c.ref
    /\ events' = Append(events, "copy-made")
    /\ pc' = "loops"
    /\ UNCHANGED <<listing, lines, sorted_data, func, timer, printed>>
    /\ UNCHANGED <<loadVars, dsVars>>

\* sort_func(data), the loops: they work on the list `arr` names.
RunLoops ==
    /\ pc = "loops"
    /\ heap' = [heap EXCEPT ![arr] = Loops(func, heap[arr])]
    /\ events' = Append(events, "work")
    /\ pc' = "return"
    /\ UNCHANGED <<listing, lines, arr, sorted_data, func, timer, printed>>
    /\ UNCHANGED <<loadVars, dsVars>>

\* return arr; sorted_data = sort_func(data)
ReturnSort ==
    /\ pc = "return"
    /\ sorted_data' = arr
    /\ arr' = 0
    /\ pc' = "returned"
    /\ UNCHANGED <<listing, heap, lines, func, timer, events, printed>>
    /\ UNCHANGED <<loadVars, dsVars>>

\* end_time = time.perf_counter(); return sorted_data, (end_time - start_time)
StopTimer ==
    /\ pc = "returned"
    /\ timer' = "stopped"
    /\ events' = Append(events, "timer-stop")
    /\ pc' = "print"
    /\ UNCHANGED <<listing, heap, lines, arr, sorted_data, func, printed>>
    /\ UNCHANGED <<loadVars, dsVars>>

\* main: print the line of this algorithm, then the next one of the loop.
Report ==
    /\ pc = "print"
    /\ printed' = Append(printed, [name |-> SortNames[func], items |-> Len(heap[lines])])
    /\ IF func < 3
       THEN /\ func' = func + 1
            /\ pc' = "measure"
       ELSE /\ func' = func
            /\ pc' = "done"
    /\ UNCHANGED <<listing, heap, lines, arr, sorted_data, timer, events>>
    /\ UNCHANGED <<loadVars, dsVars>>

NextSort == StartTimer \/ EnterSort \/ RunLoops \/ ReturnSort \/ StopTimer \/ Report

SpecSort == InitSort /\ [][NextSort]_vars

\* ------------------------------------------------- sort benchmark: claims
\* The function of the loop has returned and its result is at hand.
Returned == pc \in {"returned", "print"} /\ sorted_data # 0
Result   == heap[sorted_data]

Count(a, s)       == Cardinality({i \in DOMAIN a : a[i].s = s})
SameStrings(a, b) ==
    /\ Len(a) = Len(b)
    /\ \A i \in DOMAIN a : Count(a, a[i].s) = Count(b, a[i].s)
NonDecreasing(a)  == \A i \in 1..(Len(a) - 1) : LessEq(a[i], a[i + 1])

\* Where the element of identity d stands in a.
PosOf(a, d) == CHOOSE k \in DOMAIN a : a[k].id = d
HasId(a, d) == \E k \in DOMAIN a : a[k].id = d
\* Equal records of the input keep their relative order in the output.
StableFrom(in, res) ==
    \A i, j \in DOMAIN in :
        (i < j /\ in[i].s = in[j].s) =>
            /\ HasId(res, in[i].id) /\ HasId(res, in[j].id)
            /\ PosOf(res, in[i].id) < PosOf(res, in[j].id)
HasEquals(in) == \E i, j \in DOMAIN in : i < j /\ in[i].s = in[j].s

\* C1: whatever the list (empty, one element, duplicates), each of the three
\* functions returns a permutation of its input (same length, same strings with
\* the same multiplicities) that is non-decreasing.
C1_SortedPermutation ==
    Returned => (SameStrings(listing, Result) /\ NonDecreasing(Result))

C1_Witness ==
    /\ Returned /\ func = 2
    /\ Len(listing) = MaxLen
    /\ HasEquals(listing)
    /\ ~NonDecreasing(listing)
    /\ NonDecreasing(Result)

\* C2: insertion_sort is stable: two equal records of the input, at i < j, come
\* out with the one that was at i before the one that was at j.
C2_InsertionStable ==
    (Returned /\ func = 3) => StableFrom(listing, Result)

C2_Witness ==
    /\ Returned /\ func = 3
    /\ HasEquals(listing)
    /\ ~NonDecreasing(listing)
    /\ StableFrom(listing, Result)

\* C5: no sort function modifies its argument: the list main's `lines` names
\* holds the Listing as loaded at every point of the benchmark, the function
\* works on another list object, and each function starts from the Listing.
C5_InputNotModified ==
    /\ heap[lines] = listing
    /\ pc \in {"loops", "return"} => arr # lines
    /\ pc = "loops" => heap[arr] = listing

C5_Witness ==
    /\ pc = "done"
    /\ Len(printed) = 3
    /\ ~NonDecreasing(listing)
    /\ heap[lines] = listing
    /\ NonDecreasing(heap[sorted_data])

\* A listing selection_sort reorders the equal records of: "b", "b", "a".
UnstableInput == Tagged(<< <<98>>, <<98>>, <<97>> >>)

\* C7 as stated: insertion_sort is stable, and bubble_sort and selection_sort
\* each have an input whose equal records come out in another order.
C7_OnlyInsertionStable ==
    /\ (Returned /\ func = 3) => StableFrom(listing, Result)
    /\ \E l \in Listings : ~StableFrom(l, bubble_sort(l))
    /\ \E l \in Listings : ~StableFrom(l, selection_sort(l))

\* C7 amended: insertion_sort and bubble_sort are stable on every input;
\* selection_sort is the one that is not, and "b", "b", "a" shows it.
C7_SelectionAloneUnstable ==
    /\ (Returned /\ func \in {1, 3}) => StableFrom(listing, Result)
    /\ ~StableFrom(UnstableInput, selection_sort(UnstableInput))

C7_Witness ==
    /\ Returned /\ func = 1
    /\ HasEquals(listing)
    /\ Result # listing
    /\ StableFrom(listing, Result)

\* C10 as stated: the copy is taken before the timer starts, so no copy is
\* made after a timer-start of the same measurement.
C10_CopyBeforeTimer ==
    \A i \in DOMAIN events :
        events[i] = "copy-made" => \A k \in 1..(i - 1) : events[k] # "timer-start"

\* C10 amended: the copy is taken inside the timing interval: the events of a
\* measurement are timer-start, copy-made, work, timer-stop, in this order.
C10_CopyInsideTimer ==
    /\ pc = "print" => events = <<"timer-start", "copy-made", "work", "timer-stop">>
    /\ \A i \in DOMAIN events :
        events[i] = "copy-made" =>
            /\ \E k \in 1..(i - 1) : events[k] = "timer-start"
            /\ \A k \in 1..(i - 1) : events[k] # "timer-stop"
    /\ pc \in {"loops", "return", "returned"} => timer = "running"

C10_Witness ==
    /\ pc = "print" /\ func = 3
    /\ timer = "stopped"
    /\ events = <<"timer-start", "copy-made", "work", "timer-stop">>
    /\ Len(listing) > 0

\* ============================================================ containers
\* datastructures.py, main, from the loaded listing on.  Its records are plain
\* strings: nothing of it compares or reorders them.
RemoveCount == 10        \* range(10) of the three removals, hashtable_keys[:10]
NewCount    == 10        \* range(10) of new_lines
TagBase     == 999999    \* i + 999999
FixedProbes == <<1, 100, 1000, 5000>>
NewFilePrefix == <<110, 101, 119, 95, 102, 105, 108, 101>>      \* "new_file"
DSRecords   == {<<97>>, <<98>>}                                 \* "a", "b"

\* The listings of the container benchmark: every listing of "a" and "b" (all
\* patterns of repetition), and the listings whose i-th record is either "a"
\* or a record of its own (up to MaxN distinct records).
OwnRecord(i) == <<102, 48 + i>>
MixedListings(n) ==
    UNION {[1..k -> {0, 1}] : k \in 0..n}
DSListings ==
    SeqsUpTo(DSRecords, MaxN)
    \cup {[i \in DOMAIN m |-> IF m[i] = 0 THEN <<97>> ELSE OwnRecord(i)] : m \in MixedListings(MaxN)}

Min(x, y) == IF x < y THEN x ELSE y
Max(x, y) == IF x > y THEN x ELSE y

\* str(i) of one digit.
Digit(i) == <<48 + i>>

\* dict: d[k] = v.  A key already there keeps its place in the iteration order.
DictSetKeepTag(d, k, v) ==
    IF k \in DOMAIN d.val
    THEN d
    ELSE [keys |-> Append(d.keys, k),
          val  |-> [x \in DOMAIN d.val \cup {k} |-> IF x = k THEN v ELSE d.val[x]]]
DictSet(d, k, v) ==
    IF k \in DOMAIN d.val
    THEN [keys |-> d.keys, val |-> [d.val EXCEPT ![k] = v]]
    ELSE [keys |-> Append(d.keys, k),
          val  |-> [x \in DOMAIN d.val \cup {k} |-> IF x = k THEN v ELSE d.val[x]]]

\* del d[k], for a key of d.
DictDel(d, k) ==
    [keys |-> SelectSeq(d.keys, LAMBDA x : x # k),
     val  |-> [x \in DOMAIN d.val \ {k} |-> d.val[x]]]

EmptyDict == [keys |-> <<>>, val |-> [x \in {} |-> 0]]

\* for i, line in enumerate(ls): d[line] = i + base
RECURSIVE EnumerateInto(_, _, _, _)
EnumerateInto(d, ls, i, base) ==
    IF i >= Len(ls) THEN d
    ELSE EnumerateInto(DictSet(d, At(ls, i), i + base), ls, i + 1, base)

\* for line in ls: c.append(line)
RECURSIVE AppendAll(_, _)
AppendAll(c, ls) ==
    IF ls = <<>> THEN c ELSE AppendAll(Append(c, Head(ls)), Tail(ls))

\* a[i] of a Python list: a negative index counts from the end; IndexError
\* outside -len(a) .. len(a)-1.
IndexOK(a, i) == -Len(a) <= i /\ i < Len(a)
PyIndex(a, i) == IF i >= 0 THEN a[i + 1] ELSE a[Len(a) + i + 1]

\* a[:n]
Slice(a, n) == SubSeq(a, 1, Min(n, Len(a)))

\* One probe loop: for pos in positions: if pos <= len(a): print(a[pos-1])
\* else: print(out of range).  ok is FALSE when a[pos-1] raised IndexError.
RECURSIVE Probe(_, _, _, _)
Probe(name, a, ps, acc) ==
    IF ps = <<>> THEN [ok |-> TRUE, out |-> acc]
    ELSE LET pos == Head(ps)
         IN  IF pos <= Len(a)
             THEN IF IndexOK(a, pos - 1)
                  THEN Probe(name, a, Tail(ps),
                             Append(acc, [struct |-> name, pos |-> pos, found |-> TRUE,
                                          value |-> PyIndex(a, pos - 1)]))
                  ELSE [ok |-> FALSE, out |-> acc]
             ELSE Probe(name, a, Tail(ps),
                        Append(acc, [struct |-> name, pos |-> pos, found |-> FALSE,
                                     value |-> <<>>]))

\* `if stack:` and `if queue:` : a container is true when it is not empty.
TruthyAlways(c) == TRUE
Truthy(c) == Len(c) > 0

\* list.pop() and deque.popleft(): IndexError on an empty container.
ListPopHead(s) == [ok |-> Len(s) > 0, list |-> IF Len(s) > 0 THEN Tail(s) ELSE s]
ListPop(s) ==
    [ok |-> Len(s) > 0, list |-> IF Len(s) > 0 THEN SubSeq(s, 1, Len(s) - 1) ELSE s]
DequePopLeft(q) == [ok |-> Len(q) > 0, list |-> IF Len(q) > 0 THEN Tail(q) ELSE q]

\* for _ in range(n): if stack: stack.pop()
RECURSIVE StackPopLoop(_, _)
StackPopLoop(s, n) ==
    IF n = 0 THEN [ok |-> TRUE, list |-> s]
    ELSE IF Truthy(s)
         THEN LET r == ListPop(s) IN IF r.ok THEN StackPopLoop(r.list, n - 1) ELSE r
         ELSE StackPopLoop(s, n - 1)

\* for _ in range(n): if queue: queue.popleft()
RECURSIVE QueuePopLoop(_, _)
QueuePopLoop(q, n) ==
    IF n = 0 THEN [ok |-> TRUE, list |-> q]
    ELSE IF Truthy(q)
         THEN LET r == DequePopLeft(q) IN IF r.ok THEN QueuePopLoop(r.list, n - 1) ELSE r
         ELSE QueuePopLoop(q, n - 1)

\* for key in to_remove: if key in hashtable: del hashtable[key]
RECURSIVE DeleteAll(_, _)
DeleteAll(d, ks) ==
    IF ks = <<>> THEN d
    ELSE DeleteAll(IF Head(ks) \in DOMAIN d.val THEN DictDel(d, Head(ks)) ELSE d, Tail(ks))

\* main after the listing is loaded.
InitDS ==
    /\ dlines \in DSListings
    /\ hashtable = EmptyDict
    /\ stack = <<>>
    /\ queue = <<>>
    /\ positions = <<>>
    /\ queue_list = <<>>
    /\ hashtable_keys = <<>>
    /\ new_lines = <<>>
    /\ out = <<>>
    /\ dpc = "build_hashtable"
    /\ LoadIdle
    /\ SortIdle

\* (A) hashtable = {}; for i, line in enumerate(lines): hashtable[line] = i
BuildHashtable ==
    /\ dpc = "build_hashtable"
    /\ hashtable' = EnumerateInto(EmptyDict, dlines, 0, 0)
    /\ dpc' = "build_stack"
    /\ UNCHANGED <<dlines, stack, queue, positions, queue_list, hashtable_keys, new_lines, out>>
    /\ UNCHANGED <<loadVars, sortVars>>

\* (B) stack = []; for line in lines: stack.append(line)
BuildStack ==
    /\ dpc = "build_stack"
    /\ stack' = AppendAll(<<>>, dlines)
    /\ dpc' = "build_queue"
    /\ UNCHANGED <<dlines, hashtable, queue, positions, queue_list, hashtable_keys, new_lines, out>>
    /\ UNCHANGED <<loadVars, sortVars>>

\* (C) queue = deque(); for line in lines: queue.append(line)
BuildQueue ==
    /\ dpc = "build_queue"
    /\ queue' = AppendAll(<<>>, dlines)
    /\ dpc' = "positions"
    /\ UNCHANGED <<dlines, hashtable, stack, positions, queue_list, hashtable_keys, new_lines, out>>
    /\ UNCHANGED <<loadVars, sortVars>>

\* positions = [1, 100, 1000, 5000, len(lines)]
SetPositions ==
    /\ dpc = "positions"
    /\ positions' = Append(FixedProbes, Len(dlines))
    /\ dpc' = "probe_stack"
    /\ UNCHANGED <<dlines, hashtable, stack, queue, queue_list, hashtable_keys, new_lines, out>>
    /\ UNCHANGED <<loadVars, sortVars>>

\* Retrieve from Stack
ProbeStack ==
    /\ dpc = "probe_stack"
    /\ LET r == Probe("Stack", stack, positions, out)
       IN  /\ out' = r.out
           /\ dpc' = IF r.ok THEN "probe_queue" ELSE "crashed_probe"
    /\ UNCHANGED <<dlines, hashtable, stack, queue, positions, queue_list, hashtable_keys, new_lines>>
    /\ UNCHANGED <<loadVars, sortVars>>

\* Retrieve from Queue: queue_list = list(queue), then the loop
ProbeQueue ==
    /\ dpc = "probe_queue"
    /\ queue_list' = queue
    /\ LET r == Probe("Queue", queue_list', positions, out)
       IN  /\ out' = r.out
           /\ dpc' = IF r.ok THEN "probe_hashtable" ELSE "crashed_probe"
    /\ UNCHANGED <<dlines, hashtable, stack, queue, positions, hashtable_keys, new_lines>>
    /\ UNCHANGED <<loadVars, sortVars>>

\* Retrieve from Hashtable: hashtable_keys = list(hashtable.keys()), then the loop
ProbeHashtable ==
    /\ dpc = "probe_hashtable"
    /\ hashtable_keys' = hashtable.keys
    /\ LET r == Probe("Hashtable", hashtable_keys', positions, out)
       IN  /\ out' = r.out
           /\ dpc' = IF r.ok THEN "stack_removal" ELSE "crashed_probe"
    /\ UNCHANGED <<dlines, hashtable, stack, queue, positions, queue_list, new_lines>>
    /\ UNCHANGED <<loadVars, sortVars>>

\* (A) Stack removal
StackRemoval ==
    /\ dpc = "stack_removal"
    /\ LET r == StackPopLoop(stack, RemoveCount)
       IN  /\ stack' = r.list
           /\ dpc' = IF r.ok THEN "queue_removal" ELSE "crashed_removal"
    /\ UNCHANGED <<dlines, hashtable, queue, positions, queue_list, hashtable_keys, new_lines, out>>
    /\ UNCHANGED <<loadVars, sortVars>>

\* (B) Queue removal
QueueRemoval ==
    /\ dpc = "queue_removal"
    /\ LET r == QueuePopLoop(queue, RemoveCount)
       IN  /\ queue' = r.list
           /\ dpc' = IF r.ok THEN "hashtable_removal" ELSE "crashed_removal"
    /\ UNCHANGED <<dlines, hashtable, stack, positions, queue_list, hashtable_keys, new_lines, out>>
    /\ UNCHANGED <<loadVars, sortVars>>

\* (C) Hashtable removal: to_remove = hashtable_keys[:10], then the loop
ToRemove == Slice(hashtable_keys, RemoveCount)

HashtableRemoval ==
    /\ dpc = "hashtable_removal"
    /\ hashtable' = DeleteAll(hashtable, ToRemove)
    /\ dpc' = "new_lines"
    /\ UNCHANGED <<dlines, stack, queue, positions, queue_list, hashtable_keys, new_lines, out>>
    /\ UNCHANGED <<loadVars, sortVars>>

\* new_lines = [f"new_file{i}" for i in range(10)]
MakeNewLines ==
    /\ dpc = "new_lines"
    /\ new_lines' = [k \in 1..NewCount |-> NewFilePrefix \o Digit(k - 1)]
    /\ dpc' = "stack_insertion"
    /\ UNCHANGED <<dlines, hashtable, stack, queue, positions, queue_list, hashtable_keys, out>>
    /\ UNCHANGED <<loadVars, sortVars>>

\* (A) Stack insertion
StackInsertion ==
    /\ dpc = "stack_insertion"
    /\ stack' = AppendAll(stack, new_lines)
    /\ dpc' = "queue_insertion"
    /\ UNCHANGED <<dlines, hashtable, queue, positions, queue_list, hashtable_keys, new_lines, out>>
    /\ UNCHANGED <<loadVars, sortVars>>

\* (B) Queue insertion
QueueInsertion ==
    /\ dpc = "queue_insertion"
    /\ queue' = AppendAll(queue, new_lines)
    /\ dpc' = "hashtable_insertion"
    /\ UNCHANGED <<dlines, hashtable, stack, positions, queue_list, hashtable_keys, new_lines, out>>
    /\ UNCHANGED <<loadVars, sortVars>>

\* (C) Hashtable insertion: for i, line in enumerate(new_lines): hashtable[line] = i + 999999
HashtableInsertion ==
    /\ dpc = "hashtable_insertion"
    /\ hashtable' = EnumerateInto(hashtable, new_lines, 0, TagBase)
    /\ dpc' = "done"
    /\ UNCHANGED <<dlines, stack, queue, positions, queue_list, hashtable_keys, new_lines, out>>
    /\ UNCHANGED <<loadVars, sortVars>>

NextDS ==
    \/ BuildHashtable \/ BuildStack \/ BuildQueue \/ SetPositions
    \/ ProbeStack \/ ProbeQueue \/ ProbeHashtable
    \/ StackRemoval \/ QueueRemoval \/ HashtableRemoval
    \/ MakeNewLines \/ StackInsertion \/ QueueInsertion \/ HashtableInsertion

SpecDS == InitDS /\ [][NextDS]_vars

\* ------------------------------------------------------ containers: claims
Elems(a)       == {a[i] : i \in DOMAIN a}
FirstOcc(a, x) == CHOOSE i \in DOMAIN a : a[i] = x /\ \A k \in 1..(i - 1) : a[k] # x
LastOcc(a, x)  == CHOOSE i \in DOMAIN a : a[i] = x /\ \A k \in (i + 1)..Len(a) : a[k] # x
NoRepeat(a)    == \A i, j \in DOMAIN a : i # j => a[i] # a[j]
Drop(a, n)     == SubSeq(a, n + 1, Len(a))

\* What probing the sequence a at the positions reports, as the spec states it.
ExpectedReports(name, a) ==
    [k \in 1..Len(positions) |->
        [struct |-> name, pos |-> positions[k], found |-> positions[k] <= Len(a),
         value |-> IF positions[k] <= Len(a) /\ positions[k] >= 1
                   THEN a[positions[k]] ELSE <<>>]]

\* C3: for a Listing of any length, zero included, probing never fails the run:
\* each probe reports the element at index p-1 when p <= size and out of range
\* otherwise, and the program goes on to the bulk removal.
C3_ProbesNeverFail ==
    /\ dpc # "crashed_probe"
    /\ dpc = "stack_removal" =>
        /\ positions = <<1, 100, 1000, 5000, Len(dlines)>>
        /\ out = ExpectedReports("Stack", stack) \o ExpectedReports("Queue", queue_list)
                 \o ExpectedReports("Hashtable", hashtable_keys)

\* C4: the bulk removal takes min(10, size) elements out of each container (for
\* the map, size is the number of distinct records) and raises no error; after
\* it, a Listing of fewer than 10 records leaves the three containers empty.
C4_BulkRemoval ==
    /\ dpc # "crashed_removal"
    /\ dpc = "new_lines" =>
        LET N == Len(dlines)
            D == Cardinality(Elems(dlines))
        IN  /\ Len(stack) = N - Min(10, N)
            /\ Len(queue) = N - Min(10, N)
            /\ Len(hashtable.keys) = D - Min(10, D)
            /\ Cardinality(DOMAIN hashtable.val) = D - Min(10, D)
            /\ N < 10 => (stack = <<>> /\ queue = <<>> /\ hashtable.keys = <<>>)

C4_Witness ==
    /\ dpc = "new_lines"
    /\ Len(dlines) \in 1..9
    /\ Cardinality(Elems(dlines)) < Len(dlines)
    /\ stack = <<>> /\ queue = <<>> /\ hashtable.keys = <<>>

\* C8: after construction, bulk removal and bulk insertion on a Listing L of
\* length N, the stack is the first max(0, N-10) records of L then new_file0 ..
\* new_file9, and the queue is L without its first min(10, N) records then
\* new_file0 .. new_file9.
NewFiles == [k \in 1..10 |-> <<110, 101, 119, 95, 102, 105, 108, 101, 47 + k>>]

C8_StackTailQueueHead ==
    dpc = "done" =>
        LET N == Len(dlines)
        IN  /\ stack = SubSeq(dlines, 1, Max(0, N - 10)) \o NewFiles
            /\ queue = Drop(dlines, Min(10, N)) \o NewFiles

C8_Witness ==
    /\ dpc = "done"
    /\ Len(dlines) > 10
    /\ dlines[1] # dlines[Len(dlines)]
    /\ dlines[1] # dlines[2]
    /\ Len(stack) = Len(dlines)
    /\ stack # queue

\* C9: after the construction, the keys of the map in iteration order are the
\* Listing with every repetition of a record but the first removed, and the tag
\* of a key is the 0-based index of the last occurrence of the record.
MapBuilt == dpc \in {"build_stack", "build_queue", "positions", "probe_stack",
                     "probe_queue", "probe_hashtable", "stack_removal",
                     "queue_removal", "hashtable_removal"}

RECURSIVE ReadLines(_, _, _)
ReadLines(f, cur, acc) ==
    IF f = <<>> THEN (IF cur = <<>> THEN acc ELSE Append(acc, cur))
    ELSE IF Head(f) \in LineEnds
         THEN ReadLines(Tail(f), <<>>, Append(acc, Append(cur, Head(f))))
         ELSE ReadLines(Tail(f), Append(cur, Head(f)), acc)

RECURSIVE LStrip(_)
LStrip(s) == IF s # <<>> /\ Head(s) \in Whitespace THEN LStrip(Tail(s)) ELSE s

RECURSIVE RStrip(_)
RStrip(s) ==
    IF s # <<>> /\ s[Len(s)] \in Whitespace THEN RStrip(SubSeq(s, 1, Len(s) - 1)) ELSE s

\* line.strip()
StripLeftOnly(s) == LStrip(s)
Strip(s) == RStrip(LStrip(s))

\* [line.strip() for line in ls if line.strip()] : an empty string is false.
RECURSIVE StripNonBlank(_, _)
StripNonBlank(ls, acc) ==
    IF ls = <<>> THEN acc
    ELSE StripNonBlank(Tail(ls),
                       IF Strip(Head(ls)) # <<>> THEN Append(acc, Strip(Head(ls))) ELSE acc)

InitLoad ==
    /\ file \in SeqsUpTo(FileChars, MaxFileLen)
    /\ raw = <<>>
    /\ loaded = <<>>
    /\ lpc = "open"
    /\ SortIdle
    /\ DSIdle

\* f.readlines()
ReadFile ==
    /\ lpc = "open"
    /\ raw' = ReadLines(file, <<>>, <<>>)
    /\ lpc' = "comprehension"
    /\ UNCHANGED <<file, loaded>>
    /\ UNCHANGED <<sortVars, dsVars>>

\* lines = [ ... ]
LoadLines ==
    /\ lpc = "comprehension"
    /\ loaded' = StripNonBlank(raw, <<>>)
    /\ lpc' = "loaded"
    /\ UNCHANGED <<file, raw>>
    /\ UNCHANGED <<sortVars, dsVars>>

NextLoad == ReadFile \/ LoadLines

SpecLoad == InitLoad /\ [][NextLoad]_vars

\* ---------------------------------------------------------- loader: claims
\* The lines of the file that hold something else than whitespace.
NonBlank   == {i \in DOMAIN raw : \E k \in DOMAIN raw[i] : raw[i][k] \notin Whitespace}
\* The j-th of them, in the order of the file.
NthNonBlank(j) == CHOOSE i \in NonBlank : Cardinality({k \in NonBlank : k < i}) = j - 1
\* r is the line l without the whitespace at its two ends.
IsTrimOf(r, l) ==
    /\ r # <<>>
    /\ r[1] \notin Whitespace
    /\ r[Len(r)] \notin Whitespace
    /\ \E p \in 0..Len(l) :
        /\ p + Len(r) <= Len(l)
        /\ SubSeq(l, p + 1, p + Len(r)) = r
        /\ \A k \in 1..p : l[k] \in Whitespace
        /\ \A k \in (p + Len(r) + 1)..Len(l) : l[k] \in Whitespace

\* C6: the loader yields the trimmed forms of the lines of the file that are not
\* blank after trimming, in the order of the file: as many records as there are
\* such lines, none empty, none with whitespace at either end.
C6_LoaderTrimsAndDrops ==
    lpc = "loaded" =>
        /\ Len(loaded) = Cardinality(NonBlank)
        /\ \A j \in DOMAIN loaded : IsTrimOf(loaded[j], raw[NthNonBlank(j)])

C6_Witness ==
    /\ lpc = "loaded"
    /\ Len(raw) = 3
    /\ NonBlank = {1, 3}
    /\ Len(loaded) = 2
    /\ loaded[1] # raw[1]
    /\ loaded[1] # loaded[2]

====
